---- MODULE Spec2Model ----
(***************************************************************************)
(* Bank-account core of typescript-starter: the ServiceResult wrapper, the *)
(* BankAccount domain model (validated factory), the in-memory repository  *)
(* and the service that composes them.                                     *)
(*                                                                         *)
(* The specifications share the variables:                                 *)
(*   Spec       - a host driving the service (create / read / update)      *)
(*   EnvSpec    - the service over a stubbed or faulting repository        *)
(*   RepoSpec   - a caller driving the repository directly                 *)
(*   ModelSpec  - a caller driving the BankAccount factory functions       *)
(*   RandomSpec - the two number generators over the draws of Math.random  *)
(***************************************************************************)
EXTENDS Integers, Sequences, FiniteSets, TLC

VARIABLES
    dataStore,  \* BankAccountRepositoryImpl.dataStore : Map<string, BankAccount>
    op,         \* the last call made by the caller, with its arguments
    before,     \* dataStore as it was when the last call was made
    result,     \* the ServiceResult that call returned
    calls       \* the repository / factory calls the last service call made, in order

vars == <<dataStore, op, before, result, calls>>

----------------------------------------------------------------------------
(* Bounds of the model.                                                    *)

\* Math.random() is also drawn from the doubles next below 1:
\* 1 - j * 2^-53 for 1 <= j <= MaxUlps
MaxUlps == 3

\* number of distinct ids randomUUID() can hand out in one run
MaxIds == 2

\* Math.random() is drawn from the grid k / RandomScale, 0 <= k < RandomScale
RandomScale == 16

----------------------------------------------------------------------------
(* JavaScript values.  A string is a sequence of characters; null and      *)
(* undefined are values of their own.                                      *)

Null == [type |-> "null"]

Undefined == [type |-> "undefined"]

JSString(chars) == [type |-> "string", value |-> chars]

\* !v for the values above: null, undefined and '' are falsy
Falsy(v) == v = Null \/ v = Undefined \/ v = JSString(<< >>)

\* a ?? b
NullishCoalesce(a, b) == IF a = Null \/ a = Undefined THEN b ELSE a

\* an exception value, and a call that ended by throwing it instead of returning
Exception(name) == [type |-> "exception", name |-> name]

Thrown(exception) == [type |-> "thrown", exception |-> exception]

IsThrown(outcome) == outcome.type = "thrown"

\* reading a property of null or undefined throws a TypeError
TypeError == Exception("TypeError")

DigitChars == <<"0", "1", "2", "3", "4", "5", "6", "7", "8", "9">>

\* Number.prototype.toString() of a non-negative integer
RECURSIVE NumberToString(_)
NumberToString(n) ==
    IF n < 10 THEN <<DigitChars[n + 1]>>
    ELSE NumberToString(n \div 10) \o <<DigitChars[(n % 10) + 1]>>

\* the draws of Math.random(): numerators k of k / RandomScale in [0, 1);
\* the smallest and the largest value of the grid
MathRandomDraws == {0, RandomScale - 1}

\* the ids randomUUID() can return
Ids == {<<"u", DigitChars[i + 1]>> : i \in 1..MaxIds}

----------------------------------------------------------------------------
(* utility/service-result.ts                                               *)

\* constructor that derives the status code from the error: 404 for not found
ServiceResultCtor_StatusByErrorType(content, error, success) ==
    [type       |-> "ServiceResult",
     content    |-> content,
     error      |-> error,
     success    |-> success,
     failure    |-> ~success,
     statusCode |-> IF success THEN 200
                    ELSE IF error.errorType = "BankAccountNotFound" THEN 404
                    ELSE 400,
     status     |-> IF success THEN "Success" ELSE "Error"]

ServiceResultCtor(content, error, success) ==
    [type       |-> "ServiceResult",
     content    |-> content,
     error      |-> error,
     success    |-> success,
     failure    |-> ~success,
     statusCode |-> IF success THEN 200 ELSE 400,
     status     |-> IF success THEN "Success" ELSE "Error"]

Succeeded(content) == ServiceResultCtor(content, Null, TRUE)

\* Failed with the error also left in content
Failed_ContentSet(error) == ServiceResultCtor(error, error, FALSE)

Failed(error) == ServiceResultCtor(Null, error, FALSE)

\* an ErrorResponse literal; details is absent (undefined) unless given
ErrorResponse(errorMessage, errorType, details) ==
    [errorMessage |-> errorMessage, errorType |-> errorType, details |-> details]

----------------------------------------------------------------------------
(* bank-account/model/bank-account-model.ts                                *)

BankAccountCtor(props) ==
    [id            |-> props.id,
     name          |-> props.name,
     balance       |-> props.balance,
     owner         |-> props.owner,
     sortCode      |-> props.sortCode,
     accountNumber |-> props.accountNumber,
     welcomeMessage |-> props.welcomeMessage]

\* sort code drawn without the 100_000 offset
generateSortCode_NoOffset(rnd) ==
    JSString(NumberToString((rnd * 900000) \div RandomScale))

\* Math.floor(100_000 + Math.random() * 900_000).toString(), Math.random() = rnd / RandomScale
generateSortCode(rnd) ==
    JSString(NumberToString(100000 + ((rnd * 900000) \div RandomScale)))

\* Math.floor(1_000_0000 + Math.random() * 90_000_000).toString()
generateAccountNumber(rnd) ==
    JSString(NumberToString(10000000 + ((rnd * 90000000) \div RandomScale)))

\* n / d rounded to the nearest integer, a tie to the even one: the rounding
\* of a double operation
RoundHalfEven(n, d) ==
    LET q == n \div d
        r == n % d
    IN
    IF 2 * r < d THEN q
    ELSE IF 2 * r > d THEN q + 1
    ELSE IF q % 2 = 0 THEN q ELSE q + 1

\* Math.round in place of Math.floor: the sum next below offset + range
\* rounds up to it
FloorNearOne_Round(offset, range, binade, j) == offset + range

\* Math.floor(offset + Math.random() * range) in double arithmetic when
\* Math.random() = 1 - j * 2^-53.  binade is the power of two next above range
\* and above offset + range: the doubles below range and below offset + range
\* are spaced u = binade * 2^-53 apart.  The product, range - j * range * 2^-53
\* = range - (j * range / binade) * u, rounds to range minus a whole number of
\* u; adding offset is then exact.
FloorNearOne(offset, range, binade, j) ==
    LET ulpsBelow == RoundHalfEven(j * range, binade) IN
    IF ulpsBelow = 0 THEN offset + range ELSE offset + range - 1

\* generateSortCode() when Math.random() returns 1 - j * 2^-53
generateSortCodeNearOne(j) ==
    JSString(NumberToString(FloorNearOne(100000, 900000, 2^20, j)))

\* generateAccountNumber() when Math.random() returns 1 - j * 2^-53
generateAccountNumberNearOne(j) ==
    JSString(NumberToString(FloorNearOne(10000000, 90000000, 2^27, j)))

\* create with the owner check placed before the name check
BankAccountCreate_OwnerFirst(props, uuid, rndSort, rndAccount) ==
    IF Falsy(props.owner) THEN
        Failed(ErrorResponse("Account owner cannot be empty or null",
                             "InvalidAccountOwner", Undefined))
    ELSE IF Falsy(props.name) THEN
        Failed(ErrorResponse("Account name cannot be empty or null",
                             "InvalidAccountName", Undefined))
    ELSE
        Succeeded(BankAccountCtor(
            [id            |-> JSString(uuid),
             name          |-> props.name,
             balance       |-> 0,
             owner         |-> props.owner,
             sortCode      |-> generateSortCode(rndSort),
             accountNumber |-> generateAccountNumber(rndAccount),
             welcomeMessage |-> Undefined]))

\* create that throws on an invalid name or owner instead of returning a failure
BankAccountCreate_ThrowsOnInvalid(props, uuid, rndSort, rndAccount) ==
    IF props = Null \/ props = Undefined THEN
        Thrown(TypeError)
    ELSE IF Falsy(props.name) \/ Falsy(props.owner) THEN
        Thrown(Exception("Error"))
    ELSE
        Succeeded(BankAccountCtor(
            [id            |-> JSString(uuid),
             name          |-> props.name,
             balance       |-> 0,
             owner         |-> props.owner,
             sortCode      |-> generateSortCode(rndSort),
             accountNumber |-> generateAccountNumber(rndAccount),
             welcomeMessage |-> Undefined]))

\* BankAccount.create(props); uuid, rndSort and rndAccount are the values the
\* calls of randomUUID() and Math.random() return
BankAccountCreate(props, uuid, rndSort, rndAccount) ==
    IF props = Null \/ props = Undefined THEN
        Thrown(TypeError)
    ELSE IF Falsy(props.name) THEN
        Failed(ErrorResponse("Account name cannot be empty or null",
                             "InvalidAccountName", Undefined))
    ELSE IF Falsy(props.owner) THEN
        Failed(ErrorResponse("Account owner cannot be empty or null",
                             "InvalidAccountOwner", Undefined))
    ELSE
        Succeeded(BankAccountCtor(
            [id            |-> JSString(uuid),
             name          |-> props.name,
             balance       |-> 0,
             owner         |-> props.owner,
             sortCode      |-> generateSortCode(rndSort),
             accountNumber |-> generateAccountNumber(rndAccount),
             welcomeMessage |-> Undefined]))

\* update with || in place of ??: an empty string given falls back too
BankAccountUpdate_OrFallback(bankAccount, props) ==
    [result |->
        Succeeded(BankAccountCtor(
            [id            |-> bankAccount.id,
             name          |-> IF Falsy(props.name) THEN bankAccount.name ELSE props.name,
             balance       |-> bankAccount.balance,
             owner         |-> bankAccount.owner,
             sortCode      |-> bankAccount.sortCode,
             accountNumber |-> bankAccount.accountNumber,
             welcomeMessage |->
                 IF Falsy(props.welcomeMessage) THEN bankAccount.welcomeMessage
                 ELSE props.welcomeMessage])),
     bankAccount |-> bankAccount]

\* update with the owner line copied from the name line
BankAccountUpdate_OwnerFromName(bankAccount, props) ==
    [result |->
        Succeeded(BankAccountCtor(
            [id            |-> bankAccount.id,
             name          |-> NullishCoalesce(props.name, bankAccount.name),
             balance       |-> bankAccount.balance,
             owner         |-> NullishCoalesce(props.name, bankAccount.owner),
             sortCode      |-> bankAccount.sortCode,
             accountNumber |-> bankAccount.accountNumber,
             welcomeMessage |->
                 NullishCoalesce(props.welcomeMessage, bankAccount.welcomeMessage)])),
     bankAccount |-> bankAccount]

\* BankAccount.update(bankAccount, props): the result, and the argument object
\* as the call leaves it (the code assigns to none of its fields)
\* update that rejects an empty name as create does
BankAccountUpdate_Validates(bankAccount, props) ==
    [result |->
        IF props.name = JSString(<< >>) THEN
            Failed(ErrorResponse("Account name cannot be empty or null",
                                 "InvalidAccountName", Undefined))
        ELSE
        Succeeded(BankAccountCtor(
            [id            |-> bankAccount.id,
             name          |-> NullishCoalesce(props.name, bankAccount.name),
             balance       |-> bankAccount.balance,
             owner         |-> bankAccount.owner,
             sortCode      |-> bankAccount.sortCode,
             accountNumber |-> bankAccount.accountNumber,
             welcomeMessage |-> NullishCoalesce(props.welcomeMessage, bankAccount.welcomeMessage)])),
     bankAccount |-> bankAccount]

\* update that takes welcomeMessage from props with no fallback
BankAccountUpdate_Overwrites(bankAccount, props) ==
    [result |->
        Succeeded(BankAccountCtor(
            [id            |-> bankAccount.id,
             name          |-> NullishCoalesce(props.name, bankAccount.name),
             balance       |-> bankAccount.balance,
             owner         |-> bankAccount.owner,
             sortCode      |-> bankAccount.sortCode,
             accountNumber |-> bankAccount.accountNumber,
             welcomeMessage |-> props.welcomeMessage])),
     bankAccount |-> bankAccount]

\* update that appends the name given to the name held
BankAccountUpdate_AppendsName(bankAccount, props) ==
    [result |->
        Succeeded(BankAccountCtor(
            [id            |-> bankAccount.id,
             name          |-> IF props.name = Null \/ props.name = Undefined THEN bankAccount.name
                               ELSE JSString(bankAccount.name.value \o props.name.value),
             balance       |-> bankAccount.balance,
             owner         |-> bankAccount.owner,
             sortCode      |-> bankAccount.sortCode,
             accountNumber |-> bankAccount.accountNumber,
             welcomeMessage |-> NullishCoalesce(props.welcomeMessage, bankAccount.welcomeMessage)])),
     bankAccount |-> bankAccount]

BankAccountUpdate(bankAccount, props) ==
    IF bankAccount = Null \/ bankAccount = Undefined \/ props = Null \/ props = Undefined THEN
        [result |-> Thrown(TypeError), bankAccount |-> bankAccount]
    ELSE
    [result |->
        Succeeded(BankAccountCtor(
            [id            |-> bankAccount.id,
             name          |-> NullishCoalesce(props.name, bankAccount.name),
             balance       |-> bankAccount.balance,
             owner         |-> bankAccount.owner,
             sortCode      |-> bankAccount.sortCode,
             accountNumber |-> bankAccount.accountNumber,
             welcomeMessage |->
                 NullishCoalesce(props.welcomeMessage, bankAccount.welcomeMessage)])),
     bankAccount |-> bankAccount]

----------------------------------------------------------------------------
(* bank-account/repository/bank-account-repository.ts                      *)
(* Each method returns the map as it leaves it and the ServiceResult.      *)
(* mapThrows tells which method of the Map throws when called, if any: the *)
(* built-in Map of the repository throws in neither (NoFault).             *)

EmptyMap == [k \in {} |-> Undefined]

NoFault == [type |-> "nofault"]

\* the exception a faulting Map.prototype.get / set throws
GetThrows == [type |-> "fault", method |-> "get", exception |-> Exception("Error")]

SetThrows == [type |-> "fault", method |-> "set", exception |-> Exception("RangeError")]

\* Map.prototype.get: undefined for a missing key
MapGet(map, key) == IF key \in DOMAIN map THEN map[key] ELSE Undefined

\* set that keeps the value already stored under the key
MapSet_KeepExisting(map, key, value) ==
    [k \in (DOMAIN map) \cup {key} |-> IF k \in DOMAIN map THEN map[k] ELSE value]

\* Map.prototype.set: inserts or overwrites
MapSet(map, key, value) ==
    [k \in (DOMAIN map) \cup {key} |-> IF k = key THEN value ELSE map[k]]

\* a not-found error of no errorType of its own
NotFound_Unclassified == ErrorResponse("Bank account not found", "Error", Undefined)

NotFound == ErrorResponse("Bank account not found", "BankAccountNotFound", Undefined)

\* create that reports a conflict when the key exists
RepositoryCreate_RejectExisting(map, bankAccount, mapThrows) ==
    IF bankAccount.id \in DOMAIN map THEN
        [dataStore |-> map,
         result    |-> Failed(ErrorResponse("Error creating bank account",
                                            "ErrorCreatingBankAccount", Undefined))]
    ELSE
        [dataStore |-> MapSet(map, bankAccount.id, bankAccount),
         result    |-> Succeeded(bankAccount)]

\* create whose catch block throws the error on
RepositoryCreate_Rethrows(map, bankAccount, mapThrows) ==
    IF bankAccount = Null \/ bankAccount = Undefined THEN
        [dataStore |-> map, result |-> Thrown(TypeError)]
    ELSE IF mapThrows = SetThrows THEN
        [dataStore |-> map, result |-> Thrown(mapThrows.exception)]
    ELSE
        [dataStore |-> MapSet(map, bankAccount.id, bankAccount),
         result    |-> Succeeded(bankAccount)]

\* create that stores the account under its owner
RepositoryCreate_KeyedByOwner(map, bankAccount, mapThrows) ==
    [dataStore |-> MapSet(map, bankAccount.owner, bankAccount),
     result    |-> Succeeded(bankAccount)]

\* create that reports success and stores nothing
RepositoryCreate_Forgets(map, bankAccount, mapThrows) ==
    [dataStore |-> map, result |-> Succeeded(bankAccount)]

RepositoryCreate(map, bankAccount, mapThrows) ==
    LET \* the exception thrown inside the try block, NoFault when none is
        e == IF bankAccount = Null \/ bankAccount = Undefined THEN TypeError
             ELSE IF mapThrows = SetThrows THEN mapThrows.exception
             ELSE NoFault
    IN
    IF e = NoFault THEN
        [dataStore |-> MapSet(map, bankAccount.id, bankAccount),
         result    |-> Succeeded(bankAccount)]
    ELSE
        [dataStore |-> map,
         result    |-> Failed(ErrorResponse("Error creating bank account",
                                            "ErrorCreatingBankAccount", e))]

\* read without the check for a missing account
RepositoryRead_NoMissingCheck(map, id, mapThrows) ==
    [dataStore |-> map, result |-> Succeeded(MapGet(map, id))]

RepositoryRead(map, id, mapThrows) ==
    LET e == IF mapThrows = GetThrows THEN mapThrows.exception ELSE NoFault
        bankAccount == MapGet(map, id)
    IN
    IF e # NoFault THEN
        [dataStore |-> map,
         result    |-> Failed(ErrorResponse("Error reading bank account",
                                            "ErrorReadingBankAccount", e))]
    ELSE IF bankAccount = Undefined THEN
        [dataStore |-> map, result |-> Failed(NotFound)]
    ELSE
        [dataStore |-> map, result |-> Succeeded(bankAccount)]

\* update without the check for a missing account: an upsert
RepositoryUpdate_Upsert(map, id, updatedBankAccount, mapThrows) ==
    [dataStore |-> MapSet(map, id, updatedBankAccount),
     result    |-> Succeeded(updatedBankAccount)]

\* update that reports success and writes nothing
RepositoryUpdate_NoWrite(map, id, updatedBankAccount, mapThrows) ==
    IF MapGet(map, id) = Undefined THEN
        [dataStore |-> map, result |-> Failed(NotFound)]
    ELSE
        [dataStore |-> map, result |-> Succeeded(updatedBankAccount)]

\* update that replaces the whole map by the one entry written
RepositoryUpdate_ReplacesStore(map, id, updatedBankAccount, mapThrows) ==
    IF MapGet(map, id) = Undefined THEN
        [dataStore |-> map, result |-> Failed(NotFound)]
    ELSE
        [dataStore |-> MapSet(EmptyMap, id, updatedBankAccount),
         result    |-> Succeeded(updatedBankAccount)]

RepositoryUpdate(map, id, updatedBankAccount, mapThrows) ==
    LET bankAccount == MapGet(map, id)
        \* get is called first; set only when the account was found
        e == IF mapThrows = GetThrows THEN mapThrows.exception
             ELSE IF bankAccount # Undefined /\ mapThrows = SetThrows THEN mapThrows.exception
             ELSE NoFault
    IN
    IF e # NoFault THEN
        [dataStore |-> map,
         result    |-> Failed(ErrorResponse("Error updating bank account",
                                            "ErrorUpdatingBankAccount", e))]
    ELSE IF bankAccount = Undefined THEN
        [dataStore |-> map, result |-> Failed(NotFound)]
    ELSE
        [dataStore |-> MapSet(map, id, updatedBankAccount),
         result    |-> Succeeded(updatedBankAccount)]

----------------------------------------------------------------------------
(* The repository object the service holds (this.repository).  Each method *)
(* is the implementation's (CallThrough) or, under jest.spyOn with         *)
(* mockReturnValue, a stub that returns a fixed ServiceResult.             *)

CallThrough == [type |-> "callThrough"]

\* the default export of bank-account-repository.ts
bankAccountRepository ==
    [create |-> CallThrough, read |-> CallThrough, update |-> CallThrough,
     mapThrows |-> NoFault]

SpyCreate(repository, map, bankAccount) ==
    IF repository.create = CallThrough THEN
        RepositoryCreate(map, bankAccount, repository.mapThrows)
    ELSE [dataStore |-> map, result |-> repository.create]

SpyRead(repository, map, id) ==
    IF repository.read = CallThrough THEN
        RepositoryRead(map, id, repository.mapThrows)
    ELSE [dataStore |-> map, result |-> repository.read]

SpyUpdate(repository, map, id, updatedBankAccount) ==
    IF repository.update = CallThrough THEN
        RepositoryUpdate(map, id, updatedBankAccount, repository.mapThrows)
    ELSE [dataStore |-> map, result |-> repository.update]

----------------------------------------------------------------------------
(* bank-account/index.ts : BankAccountServiceImpl                          *)
(* Each method returns the map as it leaves it, the ServiceResult (or the  *)
(* exception that left the method), and the factory and repository calls   *)
(* it made, each with its arguments and what it returned.                  *)

Call(fn, args, returned) == [fn |-> fn, args |-> args, returned |-> returned]

\* create that wraps the factory's failure in an error of its own
ServiceCreate_WrapsFailure(repository, map, props, uuid, rndSort, rndAccount) ==
    LET createBankAccount == BankAccountCreate(props, uuid, rndSort, rndAccount) IN
    IF createBankAccount.failure THEN
        [dataStore |-> map,
         result    |-> Failed(ErrorResponse("Error creating bank account",
                                            "ErrorCreatingBankAccount",
                                            createBankAccount.error)),
         calls     |-> <<Call("BankAccount.create", <<props>>, createBankAccount)>>]
    ELSE
        LET saved == SpyCreate(repository, map, createBankAccount.content) IN
        [dataStore |-> saved.dataStore,
         result    |-> saved.result,
         calls     |-> <<Call("BankAccount.create", <<props>>, createBankAccount),
                         Call("repository.create", <<createBankAccount.content>>,
                              saved.result)>>]

\* create that returns the account it built, not what the repository returned
ServiceCreate_ReturnsOwnAccount(repository, map, props, uuid, rndSort, rndAccount) ==
    LET createBankAccount == BankAccountCreate(props, uuid, rndSort, rndAccount) IN
    IF createBankAccount.failure THEN
        [dataStore |-> map,
         result    |-> createBankAccount,
         calls     |-> <<Call("BankAccount.create", <<props>>, createBankAccount)>>]
    ELSE
        LET saved == SpyCreate(repository, map, createBankAccount.content) IN
        [dataStore |-> saved.dataStore,
         result    |-> createBankAccount,
         calls     |-> <<Call("BankAccount.create", <<props>>, createBankAccount),
                         Call("repository.create", <<createBankAccount.content>>,
                              saved.result)>>]

ServiceCreate(repository, map, props, uuid, rndSort, rndAccount) ==
    LET createBankAccount == BankAccountCreate(props, uuid, rndSort, rndAccount) IN
    IF IsThrown(createBankAccount) \/ createBankAccount.failure THEN
        [dataStore |-> map,
         result    |-> createBankAccount,
         calls     |-> <<Call("BankAccount.create", <<props>>, createBankAccount)>>]
    ELSE
        LET saved == SpyCreate(repository, map, createBankAccount.content) IN
        [dataStore |-> saved.dataStore,
         result    |-> saved.result,
         calls     |-> <<Call("BankAccount.create", <<props>>, createBankAccount),
                         Call("repository.create", <<createBankAccount.content>>,
                              saved.result)>>]

\* read that reports a failure of the repository under an error of its own
ServiceRead_WrapsFailure(repository, map, id) ==
    LET read == SpyRead(repository, map, id) IN
    [dataStore |-> read.dataStore,
     result    |-> IF read.result.failure
                   THEN Failed(ErrorResponse("Error reading bank account",
                                             "ErrorReadingBankAccount", read.result.error))
                   ELSE read.result,
     calls     |-> <<Call("repository.read", <<id>>, read.result)>>]

\* read that caches: the account found is written back under the id
ServiceRead_WritesBack(repository, map, id) ==
    LET read == SpyRead(repository, map, id) IN
    [dataStore |-> IF read.result.success
                   THEN MapSet(read.dataStore, id,
                               [read.result.content EXCEPT !.welcomeMessage = Null])
                   ELSE read.dataStore,
     result    |-> read.result,
     calls     |-> <<Call("repository.read", <<id>>, read.result)>>]

ServiceRead(repository, map, id) ==
    LET read == SpyRead(repository, map, id) IN
    [dataStore |-> read.dataStore,
     result    |-> read.result,
     calls     |-> <<Call("repository.read", <<id>>, read.result)>>]

\* update that reports a failed read as a failed update
ServiceUpdate_RewritesFailure(repository, map, id, props) ==
    LET read == SpyRead(repository, map, id)
        readBankAccount == read.result
    IN
    IF readBankAccount.failure THEN
        [dataStore |-> read.dataStore,
         result    |-> Failed(ErrorResponse("Error updating bank account",
                                            "ErrorUpdatingBankAccount",
                                            readBankAccount.error)),
         calls     |-> <<Call("repository.read", <<id>>, readBankAccount)>>]
    ELSE
        LET updateBankAccount == BankAccountUpdate(readBankAccount.content, props).result
            saved == SpyUpdate(repository, read.dataStore, id, updateBankAccount.content)
        IN
        [dataStore |-> saved.dataStore,
         result    |-> saved.result,
         calls     |-> <<Call("repository.read", <<id>>, readBankAccount),
                         Call("BankAccount.update", <<readBankAccount.content, props>>,
                              updateBankAccount),
                         Call("repository.update", <<id, updateBankAccount.content>>,
                              saved.result)>>]

\* update that creates the account when the read finds none
ServiceUpdate_CreatesMissing(repository, map, id, props) ==
    LET read == SpyRead(repository, map, id)
        readBankAccount == read.result
    IN
    IF readBankAccount.failure THEN
        LET created == BankAccountCtor(
                [id |-> id, name |-> props.name, balance |-> 0, owner |-> Undefined,
                 sortCode |-> Undefined, accountNumber |-> Undefined,
                 welcomeMessage |-> props.welcomeMessage])
            saved == SpyCreate(repository, read.dataStore, created)
        IN
        [dataStore |-> saved.dataStore,
         result    |-> saved.result,
         calls     |-> <<Call("repository.read", <<id>>, readBankAccount),
                         Call("repository.create", <<created>>, saved.result)>>]
    ELSE
        LET updateBankAccount == BankAccountUpdate(readBankAccount.content, props).result
            saved == SpyUpdate(repository, read.dataStore, id, updateBankAccount.content)
        IN
        [dataStore |-> saved.dataStore,
         result    |-> saved.result,
         calls     |-> <<Call("repository.read", <<id>>, readBankAccount),
                         Call("BankAccount.update", <<readBankAccount.content, props>>,
                              updateBankAccount),
                         Call("repository.update", <<id, updateBankAccount.content>>,
                              saved.result)>>]

\* update that saves the account it read, not the updated one
ServiceUpdate_SavesStale(repository, map, id, props) ==
    LET read == SpyRead(repository, map, id)
        readBankAccount == read.result
    IN
    IF readBankAccount.failure THEN
        [dataStore |-> read.dataStore,
         result    |-> readBankAccount,
         calls     |-> <<Call("repository.read", <<id>>, readBankAccount)>>]
    ELSE
        LET updateBankAccount == BankAccountUpdate(readBankAccount.content, props).result
            saved == SpyUpdate(repository, read.dataStore, id, readBankAccount.content)
        IN
        [dataStore |-> saved.dataStore,
         result    |-> saved.result,
         calls     |-> <<Call("repository.read", <<id>>, readBankAccount),
                         Call("BankAccount.update", <<readBankAccount.content, props>>,
                              updateBankAccount),
                         Call("repository.update", <<id, readBankAccount.content>>,
                              saved.result)>>]

ServiceUpdate(repository, map, id, props) ==
    LET read == SpyRead(repository, map, id)
        readBankAccount == read.result
    IN
    IF readBankAccount.failure THEN
        [dataStore |-> read.dataStore,
         result    |-> readBankAccount,
         calls     |-> <<Call("repository.read", <<id>>, readBankAccount)>>]
    ELSE
        LET updateBankAccount == BankAccountUpdate(readBankAccount.content, props).result
            updateCall == Call("BankAccount.update", <<readBankAccount.content, props>>,
                               updateBankAccount)
        IN
        IF IsThrown(updateBankAccount) \/ updateBankAccount.failure THEN
            [dataStore |-> read.dataStore,
             result    |-> updateBankAccount,
             calls     |-> <<Call("repository.read", <<id>>, readBankAccount), updateCall>>]
        ELSE
            LET saved == SpyUpdate(repository, read.dataStore, id,
                                   updateBankAccount.content) IN
            [dataStore |-> saved.dataStore,
             result    |-> saved.result,
             calls     |-> <<Call("repository.read", <<id>>, readBankAccount),
                             updateCall,
                             Call("repository.update", <<id, updateBankAccount.content>>,
                                  saved.result)>>]

----------------------------------------------------------------------------
(* Inputs.                                                                 *)

\* names and owners a caller passes: missing (undefined), null, '' and non-empty
NameInputs == {Undefined, Null, JSString(<< >>), JSString(<<"A">>), JSString(<<"B">>)}

OwnerInputs == {Undefined, Null, JSString(<< >>), JSString(<<"O">>)}

WelcomeInputs == {Undefined, Null, JSString(<<"W">>)}

CreatePropsInputs == [name : NameInputs, owner : OwnerInputs]

UpdatePropsInputs == [name : NameInputs, welcomeMessage : WelcomeInputs]

NoResult == [type |-> "none"]

NoOp == [name |-> "none"]

----------------------------------------------------------------------------
(* ModelSpec: the factory functions applied to the inputs above.           *)

ModelInit ==
    /\ dataStore = EmptyMap
    /\ op = NoOp
    /\ before = EmptyMap
    /\ result = NoResult
    /\ calls = << >>

ModelCreate ==
    \E props \in CreatePropsInputs, uuid \in Ids,
       rndSort \in MathRandomDraws, rndAccount \in MathRandomDraws :
        /\ op' = [name |-> "BankAccount.create", props |-> props]
        /\ result' = BankAccountCreate(props, uuid, rndSort, rndAccount)
        /\ UNCHANGED <<dataStore, before, calls>>

\* the account updated is one the factory returned before
ModelUpdate ==
    \E props \in UpdatePropsInputs :
        /\ op.name \in {"BankAccount.create", "BankAccount.update"}
        /\ result.success
        /\ LET updated == BankAccountUpdate(result.content, props) IN
            /\ op' = [name |-> "BankAccount.update", bankAccount |-> result.content,
                      props |-> props, bankAccountAfter |-> updated.bankAccount]
            /\ result' = updated.result
        /\ UNCHANGED <<dataStore, before, calls>>

ModelNext == ModelCreate \/ ModelUpdate

ModelSpec == ModelInit /\ [][ModelNext]_vars

----------------------------------------------------------------------------
(* RandomSpec: generateSortCode and generateAccountNumber over every draw  *)
(* of the grid and over the doubles next below 1.                          *)

RandomDraws ==
    {[from |-> "grid", k |-> k] : k \in 0..(RandomScale - 1)}
        \cup {[from |-> "nearOne", j |-> j] : j \in 1..MaxUlps}

SortCodeOf(draw) ==
    IF draw.from = "grid" THEN generateSortCode(draw.k)
    ELSE generateSortCodeNearOne(draw.j)

AccountNumberOf(draw) ==
    IF draw.from = "grid" THEN generateAccountNumber(draw.k)
    ELSE generateAccountNumberNearOne(draw.j)

RandomInit ==
    /\ dataStore = EmptyMap
    /\ op = NoOp
    /\ before = EmptyMap
    /\ result = NoResult
    /\ calls = << >>

Generate ==
    \E rndSort \in RandomDraws, rndAccount \in RandomDraws :
        /\ op' = [name |-> "generate", rndSort |-> rndSort, rndAccount |-> rndAccount]
        /\ result' = [type          |-> "generated",
                      sortCode      |-> SortCodeOf(rndSort),
                      accountNumber |-> AccountNumberOf(rndAccount)]
        /\ UNCHANGED <<dataStore, before, calls>>

RandomNext == Generate

RandomSpec == RandomInit /\ [][RandomNext]_vars

----------------------------------------------------------------------------
(* RepoSpec: the repository driven directly, with accounts the factory     *)
(* built (the constructor is private: a BankAccount comes from             *)
(* BankAccount.create or BankAccount.update only).                         *)

\* the ids a caller asks for: every id randomUUID() can return, and one it never returns
IdInputs == {JSString(uuid) : uuid \in Ids} \cup {JSString(<<"x">>)}

\* for each id: an account as created, and two updates of it
RepoAccountsOf(uuid) ==
    LET created == BankAccountCreate([name |-> JSString(<<"A">>), owner |-> JSString(<<"O">>)],
                                     uuid, 0, RandomScale - 1).content
    IN {created,
        BankAccountUpdate(created, [name |-> JSString(<<"B">>),
                                    welcomeMessage |-> Undefined]).result.content,
        BankAccountUpdate(created, [name |-> Undefined,
                                    welcomeMessage |-> JSString(<<"W">>)]).result.content}

RepoAccounts == UNION {RepoAccountsOf(uuid) : uuid \in Ids}

RepoInit ==
    /\ dataStore = EmptyMap
    /\ op = NoOp
    /\ before = EmptyMap
    /\ result = NoResult
    /\ calls = << >>

RepoCreate ==
    \E bankAccount \in RepoAccounts :
        \E r \in {RepositoryCreate(dataStore, bankAccount, NoFault)} :
        /\ op' = [name |-> "repository.create", bankAccount |-> bankAccount]
        /\ before' = dataStore
        /\ dataStore' = r.dataStore
        /\ result' = r.result
        /\ UNCHANGED calls

RepoRead ==
    \E id \in IdInputs :
        \E r \in {RepositoryRead(dataStore, id, NoFault)} :
        /\ op' = [name |-> "repository.read", id |-> id]
        /\ before' = dataStore
        /\ dataStore' = r.dataStore
        /\ result' = r.result
        /\ UNCHANGED calls

RepoUpdate ==
    \E id \in IdInputs, bankAccount \in RepoAccounts :
        \E r \in {RepositoryUpdate(dataStore, id, bankAccount, NoFault)} :
        /\ op' = [name |-> "repository.update", id |-> id, bankAccount |-> bankAccount]
        /\ before' = dataStore
        /\ dataStore' = r.dataStore
        /\ result' = r.result
        /\ UNCHANGED calls

\* create followed at once by a read of the id of the account created
RepoCreateThenRead ==
    \E bankAccount \in RepoAccounts :
        \E c \in {RepositoryCreate(dataStore, bankAccount, NoFault)} :
        \E r \in {RepositoryRead(c.dataStore, c.result.content.id, NoFault)} :
        /\ op' = [name |-> "repository.create;read", bankAccount |-> bankAccount]
        /\ before' = dataStore
        /\ dataStore' = r.dataStore
        /\ result' = r.result
        /\ UNCHANGED calls

RepoNext == RepoCreate \/ RepoRead \/ RepoUpdate \/ RepoCreateThenRead

RepoSpec == RepoInit /\ [][RepoNext]_vars

----------------------------------------------------------------------------
(* Spec: a host driving the service.                                       *)

\* what the host passes to create: name missing, '' or given; owner null, '' or given
ServiceCreateInputs ==
    [name  : {Undefined, JSString(<< >>), JSString(<<"A">>)},
     owner : {Null, JSString(<< >>), JSString(<<"O">>)}]

\* what the host passes to update: each field omitted, or given ('' included for name)
ServiceUpdateInputs ==
    [name           : {Undefined, JSString(<< >>), JSString(<<"B">>)},
     welcomeMessage : {Null, JSString(<<"W">>)}]

\* the two calls of Math.random() in one create: a low and a high draw, either way round
ServiceRandomDraws == {<<0, RandomScale - 1>>, <<RandomScale - 1, 0>>}

Init ==
    /\ dataStore = EmptyMap
    /\ op = NoOp
    /\ before = EmptyMap
    /\ result = NoResult
    /\ calls = << >>

\* randomUUID() returns an id no account has yet
Create ==
    \E props \in ServiceCreateInputs, uuid \in Ids, rnd \in ServiceRandomDraws :
        /\ JSString(uuid) \notin DOMAIN dataStore
        /\ \E r \in {ServiceCreate(bankAccountRepository, dataStore, props, uuid, rnd[1], rnd[2])} :
            /\ op' = [name |-> "service.create", props |-> props]
            /\ before' = dataStore
            /\ dataStore' = r.dataStore
            /\ result' = r.result
            /\ calls' = r.calls

Read ==
    \E id \in IdInputs :
        \E r \in {ServiceRead(bankAccountRepository, dataStore, id)} :
        /\ op' = [name |-> "service.read", id |-> id]
        /\ before' = dataStore
        /\ dataStore' = r.dataStore
        /\ result' = r.result
        /\ calls' = r.calls

Update ==
    \E id \in IdInputs, props \in ServiceUpdateInputs :
        \E r \in {ServiceUpdate(bankAccountRepository, dataStore, id, props)} :
        /\ op' = [name |-> "service.update", id |-> id, props |-> props]
        /\ before' = dataStore
        /\ dataStore' = r.dataStore
        /\ result' = r.result
        /\ calls' = r.calls

\* the host reads again the id it has just read; previous is what that read returned
ReadAgain ==
    /\ op.name = "service.read"
    /\ \E r \in {ServiceRead(bankAccountRepository, dataStore, op.id)} :
        /\ op' = [name |-> "service.read", id |-> op.id, previous |-> result]
        /\ before' = dataStore
        /\ dataStore' = r.dataStore
        /\ result' = r.result
        /\ calls' = r.calls

Next == Create \/ Read \/ Update \/ ReadAgain

Spec == Init /\ [][Next]_vars

----------------------------------------------------------------------------
(* EnvSpec: the service driven as in the service tests, over a repository  *)
(* whose methods may be stubbed (jest.spyOn ... mockReturnValue) and whose  *)
(* Map may throw.  op.repository is the repository the call ran over.      *)

\* the account the tests build for the stubs: BankAccount.create(props) of its own
MockCreated ==
    BankAccountCreate([name |-> JSString(<<"A">>), owner |-> JSString(<<"O">>)],
                      <<"m">>, RandomScale - 1, 0)

\* BankAccount.update(createBankAccount.content, updateProps) of the update test
MockUpdated ==
    BankAccountUpdate(MockCreated.content,
                      [name |-> JSString(<<"B">>), welcomeMessage |-> Undefined]).result

EnvCreateRepositories ==
    {bankAccountRepository,
     [bankAccountRepository EXCEPT !.create = MockCreated],
     [bankAccountRepository EXCEPT !.mapThrows = SetThrows]}

EnvReadRepositories ==
    {bankAccountRepository,
     [bankAccountRepository EXCEPT !.read = MockCreated],
     [bankAccountRepository EXCEPT !.mapThrows = GetThrows]}

EnvUpdateRepositories ==
    {bankAccountRepository,
     [bankAccountRepository EXCEPT !.read = MockCreated],
     [bankAccountRepository EXCEPT !.update = MockUpdated],
     [bankAccountRepository EXCEPT !.mapThrows = GetThrows],
     [bankAccountRepository EXCEPT !.mapThrows = SetThrows],
     [bankAccountRepository EXCEPT !.read = MockCreated, !.mapThrows = GetThrows]}

EnvCreateInputs ==
    {[name |-> JSString(<<"A">>), owner |-> JSString(<<"O">>)],
     [name |-> Undefined,         owner |-> JSString(<<"O">>)],
     [name |-> JSString(<<"A">>), owner |-> JSString(<< >>)]}

EnvUpdateInputs ==
    {[name |-> JSString(<<"B">>), welcomeMessage |-> Undefined],
     [name |-> Undefined,         welcomeMessage |-> JSString(<<"W">>)]}

EnvInit ==
    /\ dataStore = EmptyMap
    /\ op = NoOp
    /\ before = EmptyMap
    /\ result = NoResult
    /\ calls = << >>

EnvCreate ==
    \E repository \in EnvCreateRepositories, props \in EnvCreateInputs, uuid \in Ids :
        /\ JSString(uuid) \notin DOMAIN dataStore
        /\ \E r \in {ServiceCreate(repository, dataStore, props, uuid, 0, RandomScale - 1)} :
            /\ op' = [name |-> "service.create", props |-> props,
                      repository |-> repository]
            /\ before' = dataStore
            /\ dataStore' = r.dataStore
            /\ result' = r.result
            /\ calls' = r.calls

EnvRead ==
    \E repository \in EnvReadRepositories, id \in IdInputs :
        \E r \in {ServiceRead(repository, dataStore, id)} :
        /\ op' = [name |-> "service.read", id |-> id, repository |-> repository]
        /\ before' = dataStore
        /\ dataStore' = r.dataStore
        /\ result' = r.result
        /\ calls' = r.calls

EnvUpdate ==
    \E repository \in EnvUpdateRepositories, id \in IdInputs, props \in EnvUpdateInputs :
        \E r \in {ServiceUpdate(repository, dataStore, id, props)} :
        /\ op' = [name |-> "service.update", id |-> id, props |-> props,
                  repository |-> repository]
        /\ before' = dataStore
        /\ dataStore' = r.dataStore
        /\ result' = r.result
        /\ calls' = r.calls

EnvNext == EnvCreate \/ EnvRead \/ EnvUpdate

EnvSpec == EnvInit /\ [][EnvNext]_vars

----------------------------------------------------------------------------
(* SerialSpec: a host that creates one account, updates it again and again *)
(* and reads it.  The methods of the service and of the repository are            *)
(* synchronous (no await, no callback): a call runs to its return before   *)
(* the host makes the next one, so each call is one step.  op.previous is  *)
(* the update made just before, with the account it found stored.          *)

\* the id randomUUID() hands out for the one account
SerialUuid == CHOOSE uuid \in Ids : TRUE

\* update props: each field omitted (undefined or null), '' or a new value
SerialUpdateInputs ==
    [name           : {Undefined, JSString(<< >>), JSString(<<"B">>), JSString(<<"C">>)},
     welcomeMessage : {Undefined, Null, JSString(<< >>), JSString(<<"W">>)}]

\* {} : update props with no field
EmptyProps == [name |-> Undefined, welcomeMessage |-> Undefined]

SerialInit ==
    /\ dataStore = EmptyMap
    /\ op = NoOp
    /\ before = EmptyMap
    /\ result = NoResult
    /\ calls = << >>

SerialCreate ==
    /\ JSString(SerialUuid) \notin DOMAIN dataStore
    /\ \E props \in {[name |-> JSString(<<"A">>), owner |-> JSString(<<"O">>)]} :
        \E r \in {ServiceCreate(bankAccountRepository, dataStore, props, SerialUuid,
                                0, RandomScale - 1)} :
            /\ op' = [name |-> "service.create", props |-> props]
            /\ before' = dataStore
            /\ dataStore' = r.dataStore
            /\ result' = r.result
            /\ calls' = r.calls

SerialUpdate ==
    \E id \in {JSString(SerialUuid)}, props \in SerialUpdateInputs :
        \E r \in {ServiceUpdate(bankAccountRepository, dataStore, id, props)} :
            /\ op' = [name     |-> "service.update",
                      id       |-> id,
                      props    |-> props,
                      previous |-> IF op.name = "service.update" /\ result.success
                                   THEN [name   |-> "service.update",
                                         props  |-> op.props,
                                         stored |-> before[op.id]]
                                   ELSE NoOp]
            /\ before' = dataStore
            /\ dataStore' = r.dataStore
            /\ result' = r.result
            /\ calls' = r.calls

\* op.after is the call made just before the read, with what it returned
SerialRead ==
    \E id \in {JSString(SerialUuid), JSString(<<"x">>)} :
        \E r \in {ServiceRead(bankAccountRepository, dataStore, id)} :
            /\ op' = [name  |-> "service.read",
                      id    |-> id,
                      after |-> [name |-> op.name, result |-> result]]
            /\ before' = dataStore
            /\ dataStore' = r.dataStore
            /\ result' = r.result
            /\ calls' = r.calls

SerialNext == SerialCreate \/ SerialUpdate \/ SerialRead

SerialSpec == SerialInit /\ [][SerialNext]_vars

----------------------------------------------------------------------------
(* Properties.                                                             *)

\* a field that is populated: neither null nor undefined
Populated(v) == v # Null /\ v # Undefined

\* name or owner that is empty or missing
EmptyOrMissing(v) == v \in {Undefined, Null, JSString(<< >>)}

\* matches ^\d{n}$
IsDigits(str, n) ==
    /\ str.type = "string"
    /\ Len(str.value) = n
    /\ \A i \in 1..Len(str.value) : \E d \in 1..10 : str.value[i] = DigitChars[d]

ExactlyOneOfContentError(r) ==
    /\ r.failure = ~r.success
    /\ r.success => (Populated(r.content) /\ r.error = Null)
    /\ r.failure => (r.content = Null /\ Populated(r.error))

C2_CreateValidationOrder ==
    op.name = "BankAccount.create" =>
        /\ EmptyOrMissing(op.props.name) =>
            (result.failure /\ result.error.errorType = "InvalidAccountName")
        /\ (~EmptyOrMissing(op.props.name) /\ EmptyOrMissing(op.props.owner)) =>
            (result.failure /\ result.error.errorType = "InvalidAccountOwner")

\* name and owner both empty: the name error is the one reported
C2_Witness ==
    /\ op.name = "BankAccount.create"
    /\ EmptyOrMissing(op.props.name)
    /\ EmptyOrMissing(op.props.owner)
    /\ result.failure
    /\ result.error.errorType = "InvalidAccountName"

\* C3 (ModelSpec): with a non-empty name and a non-empty owner BankAccount.create
\* succeeds; the account has the name and owner given, balance 0, a sortCode of
\* exactly 6 digits, an accountNumber of exactly 8 digits, no welcomeMessage.
C3_CreateSucceeds ==
    (/\ op.name = "BankAccount.create"
     /\ ~EmptyOrMissing(op.props.name)
     /\ ~EmptyOrMissing(op.props.owner)) =>
        /\ result.success
        /\ result.content.name = op.props.name
        /\ result.content.owner = op.props.owner
        /\ result.content.balance = 0
        /\ IsDigits(result.content.sortCode, 6)
        /\ IsDigits(result.content.accountNumber, 8)
        /\ result.content.welcomeMessage = Undefined

\* a create that succeeded with the lowest draw of the sort code
C3_Witness ==
    /\ op.name = "BankAccount.create"
    /\ result.success
    /\ result.content.sortCode = JSString(<<"1", "0", "0", "0", "0", "0">>)
    /\ result.content.name = JSString(<<"A">>)

\* C4 (ModelSpec): BankAccount.update(existing, props) returns a new account
\* whose name is props.name when given and existing.name otherwise, whose
\* welcomeMessage is props.welcomeMessage when given and existing.welcomeMessage
\* otherwise, and whose id, balance, owner, sortCode and accountNumber are those
\* of existing; existing itself is left as it was.
C4_UpdateFrame ==
    op.name = "BankAccount.update" =>
        /\ result.success
        /\ result.content.name =
               (IF Populated(op.props.name) THEN op.props.name ELSE op.bankAccount.name)
        /\ result.content.welcomeMessage =
               (IF Populated(op.props.welcomeMessage) THEN op.props.welcomeMessage
                ELSE op.bankAccount.welcomeMessage)
        /\ result.content.id = op.bankAccount.id
        /\ result.content.balance = op.bankAccount.balance
        /\ result.content.owner = op.bankAccount.owner
        /\ result.content.sortCode = op.bankAccount.sortCode
        /\ result.content.accountNumber = op.bankAccount.accountNumber
        /\ op.bankAccountAfter = op.bankAccount

\* an update that gives a name only: the name changes, the welcome message set
\* by an earlier update is kept
C4_Witness ==
    /\ op.name = "BankAccount.update"
    /\ op.props.name = JSString(<<"B">>)
    /\ op.props.welcomeMessage = Undefined
    /\ op.bankAccount.name = JSString(<<"A">>)
    /\ op.bankAccount.welcomeMessage = JSString(<<"W">>)
    /\ result.content.name = JSString(<<"B">>)
    /\ result.content.welcomeMessage = JSString(<<"W">>)

\* C5 (Spec): after any service call every account in the store has balance 0;
\* an account that was in the store before the call has the same id, owner,
\* sortCode and accountNumber as before; an account new in the store is the one
\* the factory built in that create call.
C5_CreationFieldsNeverChange ==
    \A k \in DOMAIN dataStore :
        /\ dataStore[k].balance = 0
        /\ k \in DOMAIN before =>
            /\ dataStore[k].id = before[k].id
            /\ dataStore[k].owner = before[k].owner
            /\ dataStore[k].sortCode = before[k].sortCode
            /\ dataStore[k].accountNumber = before[k].accountNumber
        /\ k \notin DOMAIN before =>
            /\ op.name = "service.create"
            /\ calls[1].fn = "BankAccount.create"
            /\ dataStore[k] = calls[1].returned.content

\* an update that changed the name of a stored account
C5_Witness ==
    /\ op.name = "service.update"
    /\ result.success
    /\ op.id \in DOMAIN before
    /\ before[op.id].name = JSString(<<"A">>)
    /\ dataStore[op.id].name = JSString(<<"B">>)

\* C6 as stated (RepoSpec): the failure of a read of an absent id has kind
\* AccountNotFound.
C6_ReadAsStated ==
    op.name = "repository.read" =>
        /\ dataStore = before
        /\ op.id \in DOMAIN before =>
            (result.success /\ result.content = before[op.id])
        /\ op.id \notin DOMAIN before =>
            (result.failure /\ result.error.errorType = "AccountNotFound")

\* C6 (RepoSpec): repository read(id) returns Success with the account stored
\* under id when id is present and a Failure whose errorType is
\* BankAccountNotFound when id is absent; either way the store is unchanged.
C6_Read ==
    op.name = "repository.read" =>
        /\ dataStore = before
        /\ op.id \in DOMAIN before =>
            (result.success /\ result.content = before[op.id] /\ result.error = Null)
        /\ op.id \notin DOMAIN before =>
            (/\ result.failure
             /\ result.content = Null
             /\ result.error.errorType = "BankAccountNotFound")

\* a read of an absent id from a store that holds another account
C6_Witness ==
    /\ op.name = "repository.read"
    /\ op.id \notin DOMAIN before
    /\ before # EmptyMap
    /\ result.failure
    /\ result.error.errorType = "BankAccountNotFound"

\* C7 as stated (RepoSpec): the failure of an update of an absent id has kind
\* AccountNotFound.
C7_UpdateAsStated ==
    op.name = "repository.update" =>
        /\ op.id \notin DOMAIN before =>
            (/\ result.failure
             /\ result.error.errorType = "AccountNotFound"
             /\ dataStore = before)
        /\ op.id \in DOMAIN before =>
            (/\ DOMAIN dataStore = DOMAIN before
             /\ dataStore[op.id] = op.bankAccount
             /\ \A k \in DOMAIN before \ {op.id} : dataStore[k] = before[k]
             /\ result.success
             /\ result.content = op.bankAccount)

\* C7 (RepoSpec): repository update(id, account) on an absent id returns a
\* Failure whose errorType is BankAccountNotFound and leaves the store as it
\* was, inserting nothing; on a present id it replaces the value under id by
\* the account passed, as passed, leaves every other entry as it was and
\* returns Success(account).
C7_Update ==
    op.name = "repository.update" =>
        /\ op.id \notin DOMAIN before =>
            (/\ result.failure
             /\ result.content = Null
             /\ result.error.errorType = "BankAccountNotFound"
             /\ dataStore = before)
        /\ op.id \in DOMAIN before =>
            (/\ DOMAIN dataStore = DOMAIN before
             /\ dataStore[op.id] = op.bankAccount
             /\ \A k \in DOMAIN before \ {op.id} : dataStore[k] = before[k]
             /\ result.success
             /\ result.content = op.bankAccount
             /\ result.error = Null)

\* an update of a present id by an account that differs from the stored one
\* in name, with a second entry in the store
C7_Witness ==
    /\ op.name = "repository.update"
    /\ op.id \in DOMAIN before
    /\ Cardinality(DOMAIN before) = 2
    /\ before[op.id].name # op.bankAccount.name
    /\ dataStore[op.id] = op.bankAccount
    /\ result.success

\* C8 (RepoSpec): repository create(account) puts account under account.id
\* whether or not the key exists, leaves every other entry as it was and
\* returns Success(account).
C8_Create ==
    op.name = "repository.create" =>
        /\ DOMAIN dataStore = DOMAIN before \cup {op.bankAccount.id}
        /\ dataStore[op.bankAccount.id] = op.bankAccount
        /\ \A k \in DOMAIN before \ {op.bankAccount.id} : dataStore[k] = before[k]
        /\ result.success
        /\ result.content = op.bankAccount
        /\ result.error = Null

\* a create over an existing key that held a different account, with a second
\* entry in the store
C8_Witness ==
    /\ op.name = "repository.create"
    /\ op.bankAccount.id \in DOMAIN before
    /\ before[op.bankAccount.id] # op.bankAccount
    /\ Cardinality(DOMAIN before) = 2
    /\ result.success

\* C9 (RepoSpec): in every store state, create(a) followed at once by
\* read(a.id) returns Success whose content equals a in every field.
C9_CreateReadRoundTrip ==
    op.name = "repository.create;read" =>
        /\ result.success
        /\ result.error = Null
        /\ result.content.id = op.bankAccount.id
        /\ result.content.name = op.bankAccount.name
        /\ result.content.balance = op.bankAccount.balance
        /\ result.content.owner = op.bankAccount.owner
        /\ result.content.sortCode = op.bankAccount.sortCode
        /\ result.content.accountNumber = op.bankAccount.accountNumber
        /\ result.content.welcomeMessage = op.bankAccount.welcomeMessage

\* the round trip over a key that held an account with another name
C9_Witness ==
    /\ op.name = "repository.create;read"
    /\ op.bankAccount.id \in DOMAIN before
    /\ before[op.bankAccount.id].name # op.bankAccount.name
    /\ result.success
    /\ result.content = op.bankAccount

\* C10 (Spec): when the factory rejects props, service.create returns the
\* factory's failure as it is (same errorType, errorMessage and details), makes
\* no call of the repository's create and leaves the store as it was.
C10_CreateShortCircuit ==
    (op.name = "service.create" /\ calls[1].returned.failure) =>
        /\ calls[1].fn = "BankAccount.create"
        /\ result = calls[1].returned
        /\ result.failure
        /\ \A i \in DOMAIN calls : calls[i].fn # "repository.create"
        /\ dataStore = before

\* a create rejected for its owner while the store holds an account
C10_Witness ==
    /\ op.name = "service.create"
    /\ ~EmptyOrMissing(op.props.name)
    /\ EmptyOrMissing(op.props.owner)
    /\ result.failure
    /\ result.error.errorType = "InvalidAccountOwner"
    /\ before # EmptyMap
    /\ dataStore = before

\* the calls of fn among the calls of the last service call
CallsOf(fn) == {i \in DOMAIN calls : calls[i].fn = fn}

\* C11 (EnvSpec): when the factory accepts props, service.create calls the
\* repository's create exactly once, with the account the factory built, and
\* returns exactly what that call returned: a success, a failure, or a success
\* whose content is another account than the one built.
C11_CreateDelegates ==
    (op.name = "service.create" /\ calls[1].returned.success) =>
        /\ calls[1].fn = "BankAccount.create"
        /\ Cardinality(CallsOf("repository.create")) = 1
        /\ Len(calls) = 2
        /\ calls[2].fn = "repository.create"
        /\ calls[2].args = <<calls[1].returned.content>>
        /\ result = calls[2].returned

\* a create over a stubbed repository: the result is the stub's, and its
\* content is not the account the service built
C11_Witness ==
    /\ op.name = "service.create"
    /\ op.repository.create # CallThrough
    /\ calls[1].returned.success
    /\ result.success
    /\ result.content # calls[1].returned.content
    /\ result.content.id # calls[1].returned.content.id

\* C12 (Spec): service.update of an id that is not in the store returns the
\* not-found failure the repository's read returned, calls neither
\* BankAccount.update nor the repository's update, and leaves the store as it was.
C12_UpdateAbsent ==
    (op.name = "service.update" /\ op.id \notin DOMAIN before) =>
        /\ Len(calls) = 1
        /\ calls[1].fn = "repository.read"
        /\ calls[1].args = <<op.id>>
        /\ result = calls[1].returned
        /\ result.failure
        /\ result.error.errorMessage = "Bank account not found"
        /\ dataStore = before

\* an update of an id never created, while the store holds an account
C12_Witness ==
    /\ op.name = "service.update"
    /\ op.id \notin DOMAIN before
    /\ before # EmptyMap
    /\ Populated(op.props.name)
    /\ result.failure
    /\ dataStore = before

\* C13 (Spec): service.update of an id in the store replaces the entry under
\* id by BankAccount.update(the account stored under id, props), returns Success
\* with that same account and changes no other entry.
C13_UpdatePresent ==
    (op.name = "service.update" /\ op.id \in DOMAIN before) =>
        LET updated == BankAccountUpdate(before[op.id], op.props).result.content IN
        /\ DOMAIN dataStore = DOMAIN before
        /\ dataStore[op.id] = updated
        /\ \A k \in DOMAIN before \ {op.id} : dataStore[k] = before[k]
        /\ result.success
        /\ result.error = Null
        /\ result.content = updated

\* an update that changes the name of one of two stored accounts
C13_Witness ==
    /\ op.name = "service.update"
    /\ op.id \in DOMAIN before
    /\ Cardinality(DOMAIN before) = 2
    /\ before[op.id].name = JSString(<<"A">>)
    /\ op.props.name = JSString(<<"B">>)
    /\ dataStore[op.id].name = JSString(<<"B">>)
    /\ result.content = dataStore[op.id]

\* C14 (Spec): service.read never changes the store, and a service.read(id)
\* that follows a service.read(id) at once returns the same content, however
\* many times it is repeated.
C14_ReadIdempotent ==
    op.name = "service.read" =>
        /\ dataStore = before
        /\ "previous" \in DOMAIN op =>
            (/\ result.content = op.previous.content
             /\ result.success = op.previous.success
             /\ result.error = op.previous.error)

\* a repeated read of a stored account, and one before it
C14_Witness ==
    /\ op.name = "service.read"
    /\ "previous" \in DOMAIN op
    /\ op.id \in DOMAIN dataStore
    /\ op.previous.success
    /\ result.success
    /\ result.content = dataStore[op.id]

\* C15 as stated (Spec): service.read(id) returns what the repository's
\* read(id) returns, and for an id never created that is a Failure of kind
\* AccountNotFound.
C15_ReadAsStated ==
    op.name = "service.read" =>
        /\ result = RepositoryRead(before, op.id, NoFault).result
        /\ op.id \notin DOMAIN before =>
            (result.failure /\ result.error.errorType = "AccountNotFound")

\* C15 (Spec): in every store state and for every id, service.read(id) makes
\* one call, the repository's read(id), and returns what the repository's read
\* returns; for an id never created that is a Failure whose errorType is
\* BankAccountNotFound.
C15_ReadDelegates ==
    op.name = "service.read" =>
        /\ Len(calls) = 1
        /\ calls[1].fn = "repository.read"
        /\ calls[1].args = <<op.id>>
        /\ result = calls[1].returned
        /\ result = RepositoryRead(before, op.id, NoFault).result
        /\ op.id \notin DOMAIN before =>
            (/\ result.failure
             /\ result.content = Null
             /\ result.error.errorType = "BankAccountNotFound")

\* a read of the id randomUUID() never returns, while the store holds accounts
C15_Witness ==
    /\ op.name = "service.read"
    /\ op.id = JSString(<<"x">>)
    /\ Cardinality(DOMAIN before) = 2
    /\ result.failure
    /\ result.error.errorType = "BankAccountNotFound"

\* a call returned a ServiceResult, it did not throw
IsServiceResult(outcome) == outcome.type = "ServiceResult"

C17_FailuresPropagateUnchanged ==
    op.name # "none" =>
        /\ result.failure =>
            (/\ calls # << >>
             /\ result = calls[Len(calls)].returned
             /\ result.error.errorType = calls[Len(calls)].returned.error.errorType
             /\ result.error.errorMessage = calls[Len(calls)].returned.error.errorMessage
             /\ result.error.details = calls[Len(calls)].returned.error.details)
        /\ \A i \in DOMAIN calls :
            calls[i].returned.failure => (i = Len(calls) /\ result = calls[i].returned)

\* an update whose write faulted: the failure of the repository's update, with
\* the exception in details, is the result of the service
C17_Witness ==
    /\ op.name = "service.update"
    /\ Len(calls) = 3
    /\ calls[3].fn = "repository.update"
    /\ calls[3].returned.failure
    /\ calls[3].returned.error.details = SetThrows.exception
    /\ result = calls[3].returned

\* the failures returned in the last service call, by it or inside it
FailuresReturned ==
    {r \in {result} \cup {calls[i].returned : i \in DOMAIN calls} :
        IsServiceResult(r) /\ r.failure}

\* C18 as stated (EnvSpec): the kind of every Failure is one of
\* InvalidAccountName, InvalidAccountOwner, AccountNotFound, CreateFailed,
\* ReadFailed, UpdateFailed.
C18_KindsAsStated ==
    \A r \in FailuresReturned :
        r.error.errorType \in {"InvalidAccountName", "InvalidAccountOwner",
                               "AccountNotFound", "CreateFailed", "ReadFailed",
                               "UpdateFailed"}

\* C18 (EnvSpec): the errorType of every Failure the factory, the repository
\* or the service returns is one of InvalidAccountName, InvalidAccountOwner,
\* BankAccountNotFound, ErrorCreatingBankAccount, ErrorReadingBankAccount,
\* ErrorUpdatingBankAccount.
C18_Kinds ==
    \A r \in FailuresReturned :
        r.error.errorType \in {"InvalidAccountName", "InvalidAccountOwner",
                               "BankAccountNotFound", "ErrorCreatingBankAccount",
                               "ErrorReadingBankAccount", "ErrorUpdatingBankAccount"}

\* a read of an id not in the store: a Failure of errorType BankAccountNotFound
C18_Witness ==
    /\ op.name = "service.read"
    /\ op.repository.mapThrows = NoFault
    /\ op.repository.read = CallThrough
    /\ result \in FailuresReturned
    /\ result.error.errorType = "BankAccountNotFound"

\* the repository calls of the last service call that ran the repository's
\* own code and in which the Map method named by the fault was called
FaultedCalls(fn) ==
    {i \in CallsOf(fn) :
        /\ op.repository.mapThrows # NoFault
        /\ \/ /\ fn = "repository.create"
              /\ op.repository.create = CallThrough
              /\ op.repository.mapThrows = SetThrows
           \/ /\ fn = "repository.read"
              /\ op.repository.read = CallThrough
              /\ op.repository.mapThrows = GetThrows
           \/ /\ fn = "repository.update"
              /\ op.repository.update = CallThrough
              /\ \/ op.repository.mapThrows = GetThrows
                 \/ /\ op.repository.mapThrows = SetThrows
                    /\ calls[i].args[1] \in DOMAIN before}

\* every faulted call of fn returned a Failure of errorType kind whose details
\* is the exception thrown, and nothing was thrown or stored
FaultCaughtAs(fn, kind) ==
    \A i \in FaultedCalls(fn) :
        /\ IsServiceResult(calls[i].returned)
        /\ calls[i].returned.failure
        /\ calls[i].returned.content = Null
        /\ calls[i].returned.error.errorType = kind
        /\ calls[i].returned.error.details = op.repository.mapThrows.exception
        /\ ~IsThrown(result)
        /\ dataStore = before

\* C19 as stated (EnvSpec): a fault of the Map inside the repository's create,
\* read or update is caught and returned as a Failure of kind CreateFailed,
\* ReadFailed or UpdateFailed with the fault in details.
C19_FaultsAsStated ==
    op.name # "none" =>
        /\ FaultCaughtAs("repository.create", "CreateFailed")
        /\ FaultCaughtAs("repository.read", "ReadFailed")
        /\ FaultCaughtAs("repository.update", "UpdateFailed")

\* C19 (EnvSpec): an exception thrown by Map.get or Map.set inside the
\* repository's create, read or update is caught there; the call returns a
\* Failure of errorType ErrorCreatingBankAccount, ErrorReadingBankAccount or
\* ErrorUpdatingBankAccount whose details is the exception, nothing is thrown
\* to the caller and the store is left as it was.
C19_FaultsCaught ==
    op.name # "none" =>
        /\ FaultCaughtAs("repository.create", "ErrorCreatingBankAccount")
        /\ FaultCaughtAs("repository.read", "ErrorReadingBankAccount")
        /\ FaultCaughtAs("repository.update", "ErrorUpdatingBankAccount")

\* a create whose Map.set threw: the repository returned the failure
C19_Witness ==
    /\ op.name = "service.create"
    /\ FaultedCalls("repository.create") = {2}
    /\ calls[2].returned.failure
    /\ calls[2].returned.error.details = Exception("RangeError")
    /\ dataStore = before

\* C20 (Spec): every account the factory returns from create or update, and
\* every account in the store, has a name and an owner that are not empty.
C20_NameAndOwnerNonEmpty ==
    /\ \A k \in DOMAIN dataStore :
        ~EmptyOrMissing(dataStore[k].name) /\ ~EmptyOrMissing(dataStore[k].owner)
    /\ \A i \in CallsOf("BankAccount.create") \cup CallsOf("BankAccount.update") :
        calls[i].returned.success =>
            (/\ ~EmptyOrMissing(calls[i].returned.content.name)
             /\ ~EmptyOrMissing(calls[i].returned.content.owner))

\* the number a string of decimal digits denotes
RECURSIVE DigitsToNumber(_)
DigitsToNumber(chars) ==
    IF chars = << >> THEN 0
    ELSE LET last == chars[Len(chars)]
             d == CHOOSE i \in 1..10 : DigitChars[i] = last
         IN DigitsToNumber(SubSeq(chars, 1, Len(chars) - 1)) * 10 + (d - 1)

\* C21 (RandomSpec): for every draw of Math.random(), the sort code generated
\* is a number in 100000..999999 and the account number one in
\* 10000000..99999999, so that their strings have exactly 6 and 8 digits.
C21_GeneratedRanges ==
    op.name = "generate" =>
        /\ IsDigits(result.sortCode, 6)
        /\ IsDigits(result.accountNumber, 8)
        /\ DigitsToNumber(result.sortCode.value) \in 100000..999999
        /\ DigitsToNumber(result.accountNumber.value) \in 10000000..99999999

\* both generators at the largest double below 1: the largest numbers
C21_Witness ==
    /\ op.name = "generate"
    /\ op.rndSort = [from |-> "nearOne", j |-> 1]
    /\ op.rndAccount = [from |-> "nearOne", j |-> 1]
    /\ DigitsToNumber(result.sortCode.value) = 999999
    /\ DigitsToNumber(result.accountNumber.value) = 99999999

\* the ServiceResults of the last call: what it returned and what the calls
\* inside it returned
ResultsReturned ==
    {r \in {result} \cup {calls[i].returned : i \in DOMAIN calls} : IsServiceResult(r)}

\* C22 (EnvSpec): in every ServiceResult, statusCode is 200 and status is
\* 'Success' exactly when success is true, and statusCode is 400 and status is
\* 'Error' exactly when failure is true, whatever the errorType of the failure.
C22_StatusFromDiscriminator ==
    \A r \in ResultsReturned :
        /\ (r.statusCode = 200 /\ r.status = "Success") <=> r.success
        /\ (r.statusCode = 400 /\ r.status = "Error") <=> r.failure
        /\ r.statusCode \in {200, 400}
        /\ r.status \in {"Success", "Error"}

\* an update that made a successful read (200) and ended on a not-found
\* failure of the repository's update (400)
C22_Witness ==
    /\ op.name = "service.update"
    /\ Len(calls) = 3
    /\ calls[1].returned.success
    /\ calls[1].returned.statusCode = 200
    /\ result.failure
    /\ result.error.errorType = "BankAccountNotFound"
    /\ result.statusCode = 400
    /\ result.status = "Error"

\* a with the fields update props p give, in place
Applied(a, p) ==
    [a EXCEPT !.name = NullishCoalesce(p.name, a.name),
              !.welcomeMessage = NullishCoalesce(p.welcomeMessage, a.welcomeMessage)]

C24_UpdateAlwaysSucceeds ==
    /\ \A k \in DOMAIN dataStore, props \in SerialUpdateInputs :
        /\ IsServiceResult(BankAccountUpdate(dataStore[k], props).result)
        /\ BankAccountUpdate(dataStore[k], props).result.success
    /\ \A i \in CallsOf("BankAccount.update") : calls[i].returned.success
    /\ (op.name = "service.update" /\ CallsOf("BankAccount.update") # {}) =>
        (Len(calls) = 3 /\ calls[3].fn = "repository.update")

\* an update with an empty name and an empty welcome message: the factory
\* returned Success and the repository's update was called
C24_Witness ==
    /\ op.name = "service.update"
    /\ op.props = [name |-> JSString(<< >>), welcomeMessage |-> JSString(<< >>)]
    /\ Len(calls) = 3
    /\ calls[2].fn = "BankAccount.update"
    /\ calls[2].returned.success
    /\ calls[3].fn = "repository.update"

\* C25 (Spec): after any sequence of service calls, the account stored under
\* key k has id k.
C25_KeyedById ==
    \A k \in DOMAIN dataStore : dataStore[k].id = k

\* two accounts stored, one of them written by an update
C25_Witness ==
    /\ op.name = "service.update"
    /\ result.success
    /\ Cardinality(DOMAIN dataStore) = 2
    /\ dataStore[op.id] # before[op.id]
    /\ dataStore[op.id].id = op.id

\* C26 (Spec): no step removes an id from the store; an id that is in the
\* store is read with success after every step; and a call that returns a
\* Failure leaves the set of ids as it was.
C26_IdsNeverShrink ==
    [][/\ DOMAIN dataStore \subseteq DOMAIN dataStore'
       /\ \A id \in DOMAIN dataStore :
            ServiceRead(bankAccountRepository, dataStore', id).result.success
       /\ result'.failure => DOMAIN dataStore' = DOMAIN dataStore]_vars

\* a failed create while an account is stored: the ids are the same
C26_Witness ==
    /\ op.name = "service.create"
    /\ result.failure
    /\ Cardinality(DOMAIN before) = 1
    /\ DOMAIN dataStore = DOMAIN before

\* C27 (SerialSpec): a service.read of the id made right after a
\* service.create or service.update that returned Success with an account
\* returns Success with that account.
C27_ReadYourWrites ==
    (/\ op.name = "service.read"
     /\ op.after.name \in {"service.create", "service.update"}
     /\ op.after.result.success
     /\ op.id = op.after.result.content.id) =>
        /\ result.success
        /\ result.error = Null
        /\ result.content = op.after.result.content

\* a read right after an update that changed the name
C27_Witness ==
    /\ op.name = "service.read"
    /\ op.after.name = "service.update"
    /\ op.after.result.success
    /\ op.after.result.content.name = JSString(<<"C">>)
    /\ op.id = op.after.result.content.id
    /\ result.content.name = JSString(<<"C">>)

\* C28 (SerialSpec): an account stored with a welcomeMessage (neither
\* undefined nor null) is stored with one after every step; an update whose
\* props.welcomeMessage is undefined or null keeps the one stored.
C28_WelcomeMessageNeverCleared ==
    [][/\ \A k \in DOMAIN dataStore :
            Populated(dataStore[k].welcomeMessage) =>
                (k \in DOMAIN dataStore' /\ Populated(dataStore'[k].welcomeMessage))
       /\ (/\ op'.name = "service.update"
           /\ op'.id \in DOMAIN dataStore
           /\ op'.props.welcomeMessage \in {Undefined, Null}) =>
                dataStore'[op'.id].welcomeMessage = dataStore[op'.id].welcomeMessage]_vars

\* an update that gives a name and a null welcomeMessage to an account that
\* has a welcome message: the message is kept
C28_Witness ==
    /\ op.name = "service.update"
    /\ op.props = [name |-> JSString(<<"B">>), welcomeMessage |-> Null]
    /\ op.id \in DOMAIN before
    /\ before[op.id].welcomeMessage = JSString(<<"W">>)
    /\ dataStore[op.id].welcomeMessage = JSString(<<"W">>)
    /\ dataStore[op.id].name = JSString(<<"B">>)

\* C29 (SerialSpec): for every account a stored and every props p,
\* BankAccount.update(BankAccount.update(a, p), p) has the fields of
\* BankAccount.update(a, p), and BankAccount.update(a, {}) has the fields of a;
\* a service.update that repeats the props of the one before it, or whose
\* props is {}, leaves the account stored as it was.
C29_UpdateIdempotentWithIdentity ==
    /\ \A k \in DOMAIN dataStore, p \in SerialUpdateInputs :
        LET once == BankAccountUpdate(dataStore[k], p).result.content IN
        /\ BankAccountUpdate(once, p).result.content = once
        /\ BankAccountUpdate(dataStore[k], EmptyProps).result.content = dataStore[k]
    /\ (op.name = "service.update" /\ op.id \in DOMAIN before) =>
        /\ op.props = EmptyProps =>
            (dataStore = before /\ result.content = before[op.id])
        /\ (op.previous.name = "service.update" /\ op.previous.props = op.props) =>
            dataStore = before

\* an update with {} of an account that has a name and a welcome message set
\* by updates: nothing changed
C29_Witness ==
    /\ op.name = "service.update"
    /\ op.props = EmptyProps
    /\ op.id \in DOMAIN before
    /\ before[op.id].name = JSString(<<"B">>)
    /\ before[op.id].welcomeMessage = JSString(<<"W">>)
    /\ dataStore = before
    /\ result.success

====
